---- MODULE Spec2Model ----
(***************************************************************************)
(* State-machine model of src/tts_app.py: a Streamlit script that loads    *)
(* the speech-service secrets, lists the provider's voices, lets the user  *)
(* preview a voice or upload a document, splits the text with              *)
(* textwrap.wrap, synthesizes every chunk into chunk_<k>.mp3 and           *)
(* concatenates the chunk files into the output file.                      *)
(*                                                                         *)
(* Strings the code inspects are sequences of one-character strings.  A    *)
(* document text is kept run-length encoded: a sequence of runs            *)
(* [c |-> character, n |-> repetitions] in which adjacent runs carry       *)
(* different characters, so that texts longer than the default chunk size  *)
(* of 5000 characters are ordinary values of the model.                    *)
(***************************************************************************)
EXTENDS Integers, Sequences, FiniteSets, TLC

\* ------------------------------------------------------------------------
\* Bounds of the model
\* ------------------------------------------------------------------------
MaxRuns == 4

MaxRunLen == 3

MaxWidth == 4

\* ------------------------------------------------------------------------
\* Run-length encoded text
\* ------------------------------------------------------------------------
Chars == {"a", "b", " "}

IsSpace(c) == c = " "

Canonical(t) == \A k \in 1..(Len(t) - 1) : t[k].c # t[k + 1].c

TextsOf(chars, lens, maxRuns) ==
    UNION {{t \in [1..k -> [c : chars, n : lens]] : Canonical(t)} : k \in 0..maxRuns}

\* len(t).  The recursion halves the sequence, which keeps it shallow.
RECURSIVE TLen(_)
TLen(t) ==
    IF t = <<>> THEN 0
    ELSE IF Len(t) = 1 THEN t[1].n
    ELSE TLen(SubSeq(t, 1, Len(t) \div 2)) + TLen(SubSeq(t, Len(t) \div 2 + 1, Len(t)))

Cat(s, t) ==
    IF s = <<>> THEN t
    ELSE IF t = <<>> THEN s
    ELSE IF s[Len(s)].c = t[1].c
         THEN SubSeq(s, 1, Len(s) - 1)
              \o <<[c |-> t[1].c, n |-> s[Len(s)].n + t[1].n]>>
              \o Tail(t)
         ELSE s \o t

RECURSIVE Take(_, _)
Take(t, k) ==
    IF k <= 0 \/ t = <<>> THEN <<>>
    ELSE IF Head(t).n <= k THEN <<Head(t)>> \o Take(Tail(t), k - Head(t).n)
    ELSE <<[c |-> Head(t).c, n |-> k]>>

RECURSIVE Drop(_, _)
Drop(t, k) ==
    IF k <= 0 \/ t = <<>> THEN t
    ELSE IF Head(t).n <= k THEN Drop(Tail(t), k - Head(t).n)
    ELSE <<[c |-> Head(t).c, n |-> Head(t).n - k]>> \o Tail(t)

\* ''.join(parts)
RECURSIVE JoinAll(_)
JoinAll(parts) ==
    IF parts = <<>> THEN <<>>
    ELSE IF Len(parts) = 1 THEN parts[1]
    ELSE Cat(JoinAll(SubSeq(parts, 1, Len(parts) \div 2)),
             JoinAll(SubSeq(parts, Len(parts) \div 2 + 1, Len(parts))))

\* str.strip() = '' : the string has no character that is not whitespace.
IsBlank(t) == \A k \in 1..Len(t) : IsSpace(t[k].c)

\* ------------------------------------------------------------------------
\* textwrap.wrap(text, width) with the defaults of TextWrapper, as called by
\* split_text_into_chunks.  On the alphabet Chars (letters and the space)
\* expand_tabs and replace_whitespace change nothing and wordsep_re splits
\* the text into its maximal runs of whitespace and of non-whitespace.
\* ------------------------------------------------------------------------
\* The j-th smallest element of a set of numbers.
Nth(set, j) == CHOOSE k \in set : Cardinality({i \in set : i <= k}) = j

\* _split: a chunk starts at the first run, at every whitespace run and
\* after every whitespace run.
SplitChunks(t) ==
    LET starts == {k \in 1..Len(t) :
                      k = 1 \/ IsSpace(t[k].c) \/ IsSpace(t[k - 1].c)}
        count == Cardinality(starts)
    IN  [j \in 1..count |->
            SubSeq(t, Nth(starts, j),
                   IF j = count THEN Len(t) ELSE Nth(starts, j + 1) - 1)]

\* The inner loop of _wrap_chunks: chunks move to the line while they fit,
\* that is, the longest prefix of the chunks that fits moves.
FillLine(chunks, width) ==
    LET fits == {m \in 0..Len(chunks) : TLen(JoinAll(SubSeq(chunks, 1, m))) <= width}
        taken == CHOOSE m \in fits : \A other \in fits : other <= m
    IN  [cur_line |-> SubSeq(chunks, 1, taken),
         cur_len |-> TLen(JoinAll(SubSeq(chunks, 1, taken))),
         chunks |-> SubSeq(chunks, taken + 1, Len(chunks))]

\* Variant: break_long_words = False, a chunk longer than the width is put
\* whole on a line of its own.
HandleLongWordUnbroken(st, width) ==
    IF st.cur_line = <<>>
    THEN [cur_line |-> <<Head(st.chunks)>>, cur_len |-> st.cur_len,
          chunks |-> Tail(st.chunks)]
    ELSE st

\* Variant: the cut is off by one and the character at the cut is lost.
HandleLongWordLossy(st, width) ==
    LET space_left == IF width < 1 THEN 1 ELSE width - st.cur_len
        chunk == Head(st.chunks)
    IN  [cur_line |-> Append(st.cur_line, Take(chunk, space_left)),
         cur_len |-> st.cur_len,
         chunks |-> <<Drop(chunk, space_left + 1)>> \o Tail(st.chunks)]

\* _handle_long_word with break_long_words = True: cut the chunk at the
\* space left on the line (no hyphen occurs in Chars).
HandleLongWord(st, width) ==
    LET space_left == IF width < 1 THEN 1 ELSE width - st.cur_len
        chunk == Head(st.chunks)
    IN  [cur_line |-> Append(st.cur_line, Take(chunk, space_left)),
         cur_len |-> st.cur_len,
         chunks |-> <<Drop(chunk, space_left)>> \o Tail(st.chunks)]

RECURSIVE WrapChunks(_, _, _)
WrapChunks(chunks, width, lines) ==
    IF chunks = <<>> THEN lines
    ELSE LET start == IF IsBlank(Head(chunks)) /\ lines # <<>>
                      THEN Tail(chunks) ELSE chunks
             filled == FillLine(start, width)
             broken == IF filled.chunks # <<>> /\ TLen(Head(filled.chunks)) > width
                       THEN HandleLongWord(filled, width) ELSE filled
             line == IF broken.cur_line # <<>>
                        /\ IsBlank(broken.cur_line[Len(broken.cur_line)])
                     THEN SubSeq(broken.cur_line, 1, Len(broken.cur_line) - 1)
                     ELSE broken.cur_line
         IN  WrapChunks(broken.chunks, width,
                        IF line # <<>> THEN Append(lines, JoinAll(line)) ELSE lines)

TextWrap(text, width) == WrapChunks(SplitChunks(text), width, <<>>)

max_chunk_size == 5000

split_text_into_chunks(text, size) == TextWrap(text, size)

\* ------------------------------------------------------------------------
\* Strings the program inspects
\* ------------------------------------------------------------------------
\* Python's None: a value different from every string and file name.
None == <<"None">>

NeuralLabel == <<"N", "e", "u", "r", "a", "l">>

StandardLabel == <<"S", "t", "a", "n", "d", "a", "r", "d">>

LowerNeuralLabel == <<"n", "e", "u", "r", "a", "l">>

\* needle in hay (Python's substring test, case-sensitive)
Contains(hay, needle) ==
    \E k \in 0..(Len(hay) - Len(needle)) : SubSeq(hay, k + 1, k + Len(needle)) = needle

\* s.startswith(prefix)
StartsWith(s, prefix) == Len(s) >= Len(prefix) /\ SubSeq(s, 1, Len(prefix)) = prefix

enUS == <<"e", "n", "-", "U", "S">>

enGB == <<"e", "n", "-", "G", "B">>

esES == <<"e", "s", "-", "E", "S">>

esMX == <<"e", "s", "-", "M", "X">>

frFR == <<"f", "r", "-", "F", "R">>

\* Voice descriptors as the provider returns them.
Voice(locale, name, label) ==
    [short_name |-> locale \o <<"-">> \o name \o label, locale |-> locale, local_name |-> name]

Jenny == Voice(enUS, <<"J", "e", "n", "n", "y">>, NeuralLabel)

Zira == Voice(enUS, <<"Z", "i", "r", "a">>, <<"R", "U", "S">>)

Ryan == Voice(enGB, <<"R", "y", "a", "n">>, NeuralLabel)

Elvira == Voice(esES, <<"E", "l", "v", "i", "r", "a">>, NeuralLabel)

Dalia == Voice(esMX, <<"D", "a", "l", "i", "a">>, NeuralLabel)

Denise == Voice(frFR, <<"D", "e", "n", "i", "s", "e">>, NeuralLabel)

VoicePool == {Jenny, Zira, Ryan, Elvira, Dalia, Denise}

\* File names.  f"chunk_{chunk_number}.mp3" keeps the number apart, so that
\* two names are equal exactly when the formatted strings are.
OutputFile == <<"output.mp3">>

PreviewFile == <<"preview.mp3">>

PreviewFileLabel ==
    <<"p", "r", "e", "v", "i", "e", "w", ".", "m", "p", "3">>

ChunkFileName(chunk_number) == <<"chunk_", chunk_number, ".mp3">>

\* ------------------------------------------------------------------------
\* Pure functions of the program
\* ------------------------------------------------------------------------
\* USD per character, in millionths of a dollar.
STANDARD_VOICE_COST_PER_CHARACTER == 4

NEURAL_VOICE_COST_PER_CHARACTER == 16

\* Variant: the voice type is ignored and the standard rate always applies.
estimate_conversion_cost_flat(text, voice_type) ==
    <<TLen(text) * STANDARD_VOICE_COST_PER_CHARACTER, TLen(text)>>

\* Returns the tuple (cost, total_characters); cost in millionths of a dollar.
estimate_conversion_cost(text, voice_type) ==
    LET total_characters == TLen(text)
    IN  IF Contains(voice_type, NeuralLabel)
        THEN <<total_characters * NEURAL_VOICE_COST_PER_CHARACTER, total_characters>>
        ELSE <<total_characters * STANDARD_VOICE_COST_PER_CHARACTER, total_characters>>

\* Variant: only the locale es-ES counts as Spanish.
LanguageOfSpainOnly(locale) ==
    IF StartsWith(locale, <<"e", "n">>) THEN "English"
    ELSE IF locale = esES THEN "Spanish"
    ELSE "none"

\* The if/elif of organize_voices_by_language: the group of a locale.
LanguageOf(locale) ==
    IF StartsWith(locale, <<"e", "n">>) THEN "English"
    ELSE IF StartsWith(locale, <<"e", "s">>) THEN "Spanish"
    ELSE "none"

\* The for-loop of organize_voices_by_language: each voice is appended to
\* its group, a voice of no group to nothing.
RECURSIVE OrganizeLoop(_, _)
OrganizeLoop(voices, languages) ==
    IF voices = <<>> THEN languages
    ELSE LET voice == Head(voices)
             group == LanguageOf(voice.locale)
         IN  OrganizeLoop(Tail(voices),
                IF group = "none" THEN languages
                ELSE [languages EXCEPT ![group] = Append(@, voice)])

NoLanguages == [English |-> <<>>, Spanish |-> <<>>]

organize_voices_by_language(voices) == OrganizeLoop(voices, NoLanguages)

\* One character string as a run-length encoded text: a run starts where
\* the character changes.
Encode(chars) ==
    LET starts == {k \in 1..Len(chars) : k = 1 \/ chars[k] # chars[k - 1]}
        count == Cardinality(starts)
        stop(j) == IF j = count THEN Len(chars) ELSE Nth(starts, j + 1) - 1
    IN  [j \in 1..count |->
            [c |-> chars[Nth(starts, j)], n |-> stop(j) - Nth(starts, j) + 1]]

\* str.format of a voice name: None prints as "None".
Format(v) == IF v = None THEN <<"N", "o", "n", "e">> ELSE v

\* "Hello! My name is {} and I will be your voice."
EnglishGreeting(v) ==
    <<"H", "e", "l", "l", "o", "!", " ", "M", "y", " ", "n", "a", "m", "e", " ", "i", "s", " ">>
    \o Format(v)
    \o <<" ", "a", "n", "d", " ", "I", " ", "w", "i", "l", "l", " ", "b", "e", " ",
         "y", "o", "u", "r", " ", "v", "o", "i", "c", "e", ".">>

\* The Spanish greeting; its two non-ASCII letters are written as the
\* one-character tokens "!inv" and "e-acute".
SpanishGreeting(v) ==
    <<"!inv", "H", "o", "l", "a", "!", " ", "M", "e", " ", "l", "l", "a", "m", "o", " ">>
    \o Format(v)
    \o <<" ", "y", " ", "s", "e", "r", "e-acute", " ", "t", "u", " ", "v", "o", "z", ".">>

\* The call preview_voice makes: text_to_speech_in_chunks(preview_text,
\* voice, output_filename) binds the third positional argument to the
\* parameter voice_type and leaves output_filename at its default.
preview_voice_call(voice, language) ==
    [caller |-> "preview_voice",
     text |-> Encode(IF language = "English" THEN EnglishGreeting(voice)
                     ELSE SpanishGreeting(voice)),
     voice |-> voice,
     voice_type |-> PreviewFileLabel,
     output_filename |-> OutputFile]

\* The call main makes for "Convert to Speech".
convert_call(text, selected_voice) ==
    [caller |-> "main", text |-> text, voice |-> selected_voice,
     voice_type |-> selected_voice, output_filename |-> OutputFile]

NoCall ==
    [caller |-> "none", text |-> <<>>, voice |-> None, voice_type |-> None,
     output_filename |-> None]

\* Variant: only the absence of the file ends the run.
load_secrets_unchecked(store) ==
    IF store = "absent" THEN "stopped"
    ELSE IF store = "malformed" THEN "failed"
    ELSE "main"

\* The try/except of the module's secrets loading: where the script is
\* after it.  FileNotFoundError and KeyError end in st.stop(); any other
\* error of toml.load is not caught.
load_secrets(store) ==
    IF store = "absent" THEN "stopped"
    ELSE IF store \in {"no_speech_service", "no_api_key", "no_region"} THEN "stopped"
    ELSE IF store = "malformed" THEN "failed"
    ELSE "main"

\* Variant: the file name is returned whatever the reason.
synthesize_chunk_return_always(reason, output_filename) == output_filename

\* What synthesize_chunk returns for the reason its synthesis ended with.
synthesize_chunk_return(reason, output_filename) ==
    IF reason = "SynthesizingAudioCompleted" THEN output_filename ELSE None

\* Variant: no try/except around the synthesis, an exception leaves the loop.
UncaughtInSynthesizeChunk(reason) == reason # "Exception"

\* "except Exception" in synthesize_chunk catches every exception raised
\* while the chunk is synthesized.
CaughtInSynthesizeChunk(reason) == TRUE

\* Variant: the file is put in front of the list.
CollectAudioFileInFront(audio_files, audio_file) ==
    IF audio_file # None THEN <<audio_file>> \o audio_files ELSE audio_files

\* if audio_file: audio_files.append(audio_file)
CollectAudioFile(audio_files, audio_file) ==
    IF audio_file # None THEN Append(audio_files, audio_file) ELSE audio_files

\* Variant: the output is opened whatever the list holds.
ShouldCombineAlways(audio_files) == TRUE

\* if audio_files: (the output is opened only for a non-empty list)
ShouldCombine(audio_files) == audio_files # <<>>

\* The bytes written to the output: each listed file's bytes, in list order.
RECURSIVE Combine(_, _)
Combine(dir, audio_files) ==
    IF audio_files = <<>> THEN <<>>
    ELSE dir[Head(audio_files)] \o Combine(dir, Tail(audio_files))

\* The audio the provider returns for one chunk; by is the session whose
\* call produced it.
Audio(s, voice, chunk) == <<[by |-> s, voice |-> voice, text |-> chunk]>>

WriteFile(dir, name, bytes) ==
    [f \in DOMAIN dir \cup {name} |-> IF f = name THEN bytes ELSE dir[f]]

EmptyDir == [f \in {} |-> <<>>]

\* ------------------------------------------------------------------------
\* State
\* ------------------------------------------------------------------------
Sessions == {1, 2}

VARIABLES
    secrets,            \* the state of secrets.toml
    fs,                 \* the working directory: file name -> bytes
    remote,             \* the remote calls attempted so far
    overlapped,         \* per session: its request ran while another's did
    pc,                 \* per session: where its script run is
    voices,             \* per session: the catalog get_available_voices returned
    languages,          \* per session: organize_voices_by_language(voices)
    selected_language,  \* per session: the language select box
    selected_voice,     \* per session: the voice select box
    call,               \* per session: the arguments of text_to_speech_in_chunks
    chunks,             \* per session: its local chunks
    results,            \* per session: the reason each processed chunk ended with
    audio_files,        \* per session: its local audio_files
    estimate,           \* per session: the tuple estimate_conversion_cost returned
    ui,                 \* per session: what the page shows
    io,                 \* per session: the files this run wrote
    runs,               \* per session: reruns of the script so far
    fin,                \* input of the function under test
    fout                \* its result

vars ==
    <<secrets, fs, remote, overlapped, pc, voices, languages, selected_language,
      selected_voice, call, chunks, results, audio_files, estimate, ui, io, runs,
      fin, fout>>

pageVars == <<voices, languages>>

choiceVars == <<selected_language, selected_voice>>

loopVars == <<chunks, results, audio_files, estimate>>

funVars == <<fin, fout>>

NoUi ==
    [success |-> FALSE, offered |-> FALSE, download |-> <<>>, file_name |-> None,
     audio |-> None]

Pending == [computed |-> FALSE, value |-> <<>>]

SessionsStart ==
    /\ fs = EmptyDir
    /\ remote = {}
    /\ overlapped = [s \in Sessions |-> FALSE]
    /\ pc = [s \in Sessions |-> "boot"]
    /\ voices = [s \in Sessions |-> <<>>]
    /\ languages = [s \in Sessions |-> NoLanguages]
    /\ selected_language = [s \in Sessions |-> "English"]
    /\ selected_voice = [s \in Sessions |-> None]
    /\ call = [s \in Sessions |-> NoCall]
    /\ chunks = [s \in Sessions |-> <<>>]
    /\ results = [s \in Sessions |-> <<>>]
    /\ audio_files = [s \in Sessions |-> <<>>]
    /\ estimate = [s \in Sessions |-> <<>>]
    /\ ui = [s \in Sessions |-> NoUi]
    /\ io = [s \in Sessions |-> {}]
    /\ runs = [s \in Sessions |-> 0]

SecretsStates == {"absent", "no_speech_service", "no_api_key", "no_region", "malformed", "ok"}

BadSecrets == {"absent", "no_speech_service", "no_api_key", "no_region"}

Reasons == {"SynthesizingAudioCompleted", "Canceled", "Exception"}

LanguageOptions == {"English", "Spanish"}

\* The options of the voice select box; an empty box yields None.
VoiceChoices(list) ==
    IF list = <<>> THEN {None} ELSE {list[k].short_name : k \in DOMAIN list}

\* ------------------------------------------------------------------------
\* Steps of one script run of session s
\* ------------------------------------------------------------------------
\* Module level: toml.load and the two key lookups.
LoadSecrets(s) ==
    /\ pc[s] = "boot"
    /\ pc' = [pc EXCEPT ![s] = load_secrets(secrets)]
    /\ UNCHANGED <<secrets, fs, remote, overlapped, pageVars, choiceVars, call,
                   loopVars, ui, io, runs, funVars>>

\* main, steps 1: the remote voice listing and the grouping.
GetVoices(s, catalogs) ==
    /\ pc[s] = "main"
    /\ \E catalog \in catalogs :
          /\ voices' = [voices EXCEPT ![s] = catalog]
          /\ languages' = [languages EXCEPT ![s] = organize_voices_by_language(catalog)]
    /\ remote' = remote \cup {"get_voices"}
    /\ pc' = [pc EXCEPT ![s] = "select"]
    /\ UNCHANGED <<secrets, fs, overlapped, choiceVars, call, loopVars, ui, io, runs,
                   funVars>>

\* The head of text_to_speech_in_chunks up to the loop: the split, the
\* cost estimate (a TypeError when voice_type is None) and audio_files = [].
EnterTextToSpeech(s, c) ==
    /\ call' = [call EXCEPT ![s] = c]
    /\ chunks' = [chunks EXCEPT ![s] = split_text_into_chunks(c.text, max_chunk_size)]
    /\ results' = [results EXCEPT ![s] = <<>>]
    /\ audio_files' = [audio_files EXCEPT ![s] = <<>>]
    /\ IF c.voice_type = None
       THEN /\ pc' = [pc EXCEPT ![s] = "failed"]
            /\ UNCHANGED <<estimate, overlapped>>
       ELSE /\ pc' = [pc EXCEPT ![s] = "tts"]
            /\ estimate' = [estimate EXCEPT
                              ![s] = estimate_conversion_cost(c.text, c.voice_type)]
            /\ overlapped' = [t \in Sessions |->
                                IF t = s THEN \E u \in Sessions \ {s} : pc[u] = "tts"
                                ELSE overlapped[t] \/ pc[t] = "tts"]

\* main, steps 2 to 4 with "Preview Voice" pressed.
StartPreview(s) ==
    /\ pc[s] = "select"
    /\ \E language \in LanguageOptions :
          \E voice \in VoiceChoices(languages[s][language]) :
             /\ selected_language' = [selected_language EXCEPT ![s] = language]
             /\ selected_voice' = [selected_voice EXCEPT ![s] = voice]
             /\ EnterTextToSpeech(s, preview_voice_call(voice, language))
    /\ UNCHANGED <<secrets, fs, remote, pageVars, ui, io, runs, funVars>>

\* main, steps 2 to 5 with a readable, non-empty upload and "Convert to
\* Speech" pressed.
StartConvert(s, texts) ==
    /\ pc[s] = "select"
    /\ \E language \in LanguageOptions :
          \E voice \in VoiceChoices(languages[s][language]) :
             \E text \in texts \ {<<>>} :
                /\ selected_language' = [selected_language EXCEPT ![s] = language]
                /\ selected_voice' = [selected_voice EXCEPT ![s] = voice]
                /\ EnterTextToSpeech(s, convert_call(text, voice))
    /\ UNCHANGED <<secrets, fs, remote, pageVars, ui, io, runs, funVars>>

\* main, steps 2 to 5 when nothing is converted: no button pressed, no
\* upload, or an upload whose text is None or empty.
NoConversion(s) ==
    /\ pc[s] = "select"
    /\ \E language \in LanguageOptions :
          \E voice \in VoiceChoices(languages[s][language]) :
             /\ selected_language' = [selected_language EXCEPT ![s] = language]
             /\ selected_voice' = [selected_voice EXCEPT ![s] = voice]
    /\ pc' = [pc EXCEPT ![s] = "done"]
    /\ UNCHANGED <<secrets, fs, remote, overlapped, pageVars, call, loopVars, ui, io,
                   runs, funVars>>

\* One iteration of the loop: synthesize_chunk(chunk, voice, i + 1) and the
\* append.  A synthesis that does not complete leaves chunk_<k>.mp3 as it
\* was or, when the SDK had already opened it, empty.
SynthesizeChunk(s, reasons) ==
    /\ pc[s] = "tts"
    /\ Len(results[s]) < Len(chunks[s])
    /\ LET chunk_number == Len(results[s]) + 1
           output_filename == ChunkFileName(chunk_number)
       IN  \E reason \in reasons :
              /\ results' = [results EXCEPT ![s] = Append(@, reason)]
              /\ \/ /\ reason = "SynthesizingAudioCompleted"
                    /\ fs' = WriteFile(fs, output_filename,
                                       Audio(s, call[s].voice, chunks[s][chunk_number]))
                    /\ io' = [io EXCEPT ![s] = @ \cup {output_filename}]
                 \/ /\ reason # "SynthesizingAudioCompleted"
                    /\ UNCHANGED <<fs, io>>
                 \/ /\ reason # "SynthesizingAudioCompleted"
                    /\ fs' = WriteFile(fs, output_filename, <<>>)
                    /\ io' = [io EXCEPT ![s] = @ \cup {output_filename}]
              /\ IF CaughtInSynthesizeChunk(reason)
                 THEN /\ audio_files' =
                            [audio_files EXCEPT
                               ![s] = CollectAudioFile(@,
                                         synthesize_chunk_return(reason, output_filename))]
                      /\ UNCHANGED pc
                 ELSE /\ pc' = [pc EXCEPT ![s] = "failed"]
                      /\ UNCHANGED audio_files
    /\ remote' = remote \cup {"speak_text"}
    /\ UNCHANGED <<secrets, overlapped, pageVars, choiceVars, call, chunks, estimate,
                   ui, runs, funVars>>

\* st.audio(output_filename) of preview_voice, once the call has returned.
AfterCall(s, page) ==
    IF call[s].caller = "preview_voice" THEN [page EXCEPT !.audio = PreviewFile] ELSE page

\* The first listed file that does not exist, 0 when all do.
FirstMissing(dir, files) ==
    IF \A k \in DOMAIN files : files[k] \in DOMAIN dir THEN 0
    ELSE CHOOSE k \in DOMAIN files :
            /\ files[k] \notin DOMAIN dir
            /\ \A j \in 1..(k - 1) : files[j] \in DOMAIN dir

\* After the loop: combine the audio files, offer the download, return.
Assemble(s) ==
    /\ pc[s] = "tts"
    /\ Len(results[s]) = Len(chunks[s])
    /\ LET output_filename == call[s].output_filename
           missing == FirstMissing(fs, audio_files[s])
       IN  IF ~ShouldCombine(audio_files[s])
           THEN /\ ui' = [ui EXCEPT ![s] = AfterCall(s, @)]
                /\ pc' = [pc EXCEPT ![s] = "done"]
                /\ UNCHANGED <<fs, io>>
           ELSE IF missing = 0
           THEN LET bytes == Combine(fs, audio_files[s])
                IN  /\ fs' = WriteFile(fs, output_filename, bytes)
                    /\ io' = [io EXCEPT ![s] = @ \cup {output_filename}]
                    /\ ui' = [ui EXCEPT
                                ![s] = AfterCall(s, [@ EXCEPT !.success = TRUE,
                                                              !.offered = TRUE,
                                                              !.download = bytes,
                                                              !.file_name = output_filename])]
                    /\ pc' = [pc EXCEPT ![s] = "done"]
           ELSE /\ fs' = WriteFile(fs, output_filename,
                                   Combine(fs, SubSeq(audio_files[s], 1, missing - 1)))
                /\ io' = [io EXCEPT ![s] = @ \cup {output_filename}]
                /\ pc' = [pc EXCEPT ![s] = "failed"]
                /\ UNCHANGED ui
    /\ UNCHANGED <<secrets, remote, overlapped, pageVars, choiceVars, call, loopVars,
                   runs, funVars>>

\* An I/O error while combining: open(output_filename, "wb") fails
\* (read = 0) or reading the read-th audio file fails after the earlier
\* ones were written.  Nothing catches it.
AssembleFails(s) ==
    /\ pc[s] = "tts"
    /\ Len(results[s]) = Len(chunks[s])
    /\ ShouldCombine(audio_files[s])
    /\ \E read \in 0..Len(audio_files[s]) :
          IF read = 0
          THEN UNCHANGED <<fs, io>>
          ELSE /\ FirstMissing(fs, SubSeq(audio_files[s], 1, read - 1)) = 0
               /\ fs' = WriteFile(fs, call[s].output_filename,
                                  Combine(fs, SubSeq(audio_files[s], 1, read - 1)))
               /\ io' = [io EXCEPT ![s] = @ \cup {call[s].output_filename}]
    /\ pc' = [pc EXCEPT ![s] = "failed"]
    /\ UNCHANGED <<secrets, remote, overlapped, pageVars, choiceVars, call, loopVars,
                   ui, runs, funVars>>

\* Streamlit runs the script again from the top; the files stay.
Rerun(s, limit) ==
    /\ pc[s] \in {"done", "failed", "stopped"}
    /\ runs[s] < limit
    /\ runs' = [runs EXCEPT ![s] = @ + 1]
    /\ pc' = [pc EXCEPT ![s] = "boot"]
    /\ overlapped' = [overlapped EXCEPT ![s] = FALSE]
    /\ voices' = [voices EXCEPT ![s] = <<>>]
    /\ languages' = [languages EXCEPT ![s] = NoLanguages]
    /\ selected_language' = [selected_language EXCEPT ![s] = "English"]
    /\ selected_voice' = [selected_voice EXCEPT ![s] = None]
    /\ call' = [call EXCEPT ![s] = NoCall]
    /\ chunks' = [chunks EXCEPT ![s] = <<>>]
    /\ results' = [results EXCEPT ![s] = <<>>]
    /\ audio_files' = [audio_files EXCEPT ![s] = <<>>]
    /\ estimate' = [estimate EXCEPT ![s] = <<>>]
    /\ ui' = [ui EXCEPT ![s] = NoUi]
    /\ io' = [io EXCEPT ![s] = {}]
    /\ UNCHANGED <<secrets, fs, remote, funVars>>

\* ------------------------------------------------------------------------
\* Specification of one session
\* ------------------------------------------------------------------------
MaxReruns == 1

BigWord == max_chunk_size + 1

\* Documents for the conversion: of zero, one and three chunks.
Documents ==
    {<<[c |-> " ", n |-> 2]>>,
     <<[c |-> "a", n |-> 3], [c |-> " ", n |-> 1], [c |-> "b", n |-> 2]>>,
     <<[c |-> "a", n |-> BigWord], [c |-> " ", n |-> 1], [c |-> "b", n |-> max_chunk_size]>>}

\* The provider's catalog: an English voice and one of no offered language,
\* so that the Spanish voice box is empty.
Catalogs == {<<Jenny, Denise>>}

Init ==
    /\ secrets \in SecretsStates
    /\ SessionsStart
    /\ fin = <<>>
    /\ fout = Pending

Next ==
    \/ LoadSecrets(1)
    \/ GetVoices(1, Catalogs)
    \/ StartPreview(1)
    \/ StartConvert(1, Documents)
    \/ NoConversion(1)
    \/ SynthesizeChunk(1, Reasons)
    \/ Assemble(1)
    \/ AssembleFails(1)
    \/ Rerun(1, MaxReruns)

Spec == Init /\ [][Next]_vars

\* ------------------------------------------------------------------------
\* Specification of two sessions sharing the working directory
\* ------------------------------------------------------------------------
\* Two documents of two chunks each.
SharedDocuments ==
    {<<[c |-> "a", n |-> max_chunk_size], [c |-> " ", n |-> 1], [c |-> "b", n |-> 1]>>,
     <<[c |-> "b", n |-> max_chunk_size], [c |-> " ", n |-> 1], [c |-> "a", n |-> 2]>>}

InitConc ==
    /\ secrets = "ok"
    /\ SessionsStart
    /\ fin = <<>>
    /\ fout = Pending

NextConc ==
    \E s \in Sessions :
       \/ LoadSecrets(s)
       \/ GetVoices(s, Catalogs)
       \/ StartConvert(s, SharedDocuments)
       \/ SynthesizeChunk(s, Reasons)
       \/ Assemble(s)

SpecConc == InitConc /\ [][NextConc]_vars

\* ------------------------------------------------------------------------
\* Specifications of the pure functions: the input is drawn in the initial
\* state and one step applies the function.
\* ------------------------------------------------------------------------
Computed(value) == [computed |-> TRUE, value |-> value]

Apply(value) ==
    /\ ~fout.computed
    /\ fout' = Computed(value)
    /\ UNCHANGED <<secrets, fs, remote, overlapped, pc, pageVars, choiceVars, call,
                   loopVars, ui, io, runs, fin>>

ChunkerTexts == TextsOf(Chars, 1..MaxRunLen, MaxRuns)

InitChunker ==
    /\ secrets = "ok"
    /\ SessionsStart
    /\ fin \in [text : ChunkerTexts, size : 1..MaxWidth]
    /\ fout = Pending

ApplySplit == Apply(split_text_into_chunks(fin.text, fin.size))

SpecChunker == InitChunker /\ [][ApplySplit]_vars

Million == 1000 * 1000

CostTexts ==
    TextsOf({"a", " "}, 1..MaxRunLen, 2) \cup {<<[c |-> "a", n |-> Million]>>}

VoiceTypes ==
    {NeuralLabel, StandardLabel, LowerNeuralLabel, Jenny.short_name, Zira.short_name,
     PreviewFileLabel}

InitCost ==
    /\ secrets = "ok"
    /\ SessionsStart
    /\ fin \in [text : CostTexts, voice_type : VoiceTypes]
    /\ fout = Pending

ApplyEstimate == Apply(estimate_conversion_cost(fin.text, fin.voice_type))

SpecCost == InitCost /\ [][ApplyEstimate]_vars

MaxVoices == 3

\* Catalogs of at most MaxVoices different voices, in any order.
CatalogInputs ==
    UNION {{v \in [1..k -> VoicePool] : \A i, j \in 1..k : i # j => v[i] # v[j]} :
           k \in 0..MaxVoices}

InitCatalog ==
    /\ secrets = "ok"
    /\ SessionsStart
    /\ fin \in [voices : CatalogInputs]
    /\ fout = Pending

ApplyOrganize == Apply(organize_voices_by_language(fin.voices))

SpecCatalog == InitCatalog /\ [][ApplyOrganize]_vars

\* ------------------------------------------------------------------------
\* Properties
\* ------------------------------------------------------------------------
Completed == "SynthesizingAudioCompleted"

\* The chunks of session s whose synthesis completed.
Succeeded(s) == {k \in DOMAIN results[s] : results[s][k] = Completed}

\* The audio of the completed chunks from chunk k on, by increasing index.
RECURSIVE AudioFrom(_, _)
AudioFrom(s, k) ==
    IF k > Len(results[s]) THEN <<>>
    ELSE (IF results[s][k] = Completed
          THEN Audio(s, call[s].voice, chunks[s][k]) ELSE <<>>)
         \o AudioFrom(s, k + 1)

InRequest(s) == call[s].caller # "none"

\* C1: when a request is done, every chunk has been processed whatever the
\* earlier chunks ended with, and if some chunk completed, the output file
\* and the offered download hold exactly the audio of the completed chunks,
\* in increasing chunk order.
C1_OutputIsCompletedChunksInOrder ==
    \A s \in Sessions :
       (pc[s] = "done" /\ InRequest(s)) =>
          /\ Len(results[s]) = Len(chunks[s])
          /\ Succeeded(s) # {} =>
                /\ call[s].output_filename \in DOMAIN fs
                /\ fs[call[s].output_filename] = AudioFrom(s, 1)
                /\ ui[s].offered
                /\ ui[s].download = AudioFrom(s, 1)

\* Three chunks, the second cancelled: the output is the audio of chunk 1
\* followed by that of chunk 3.
C1_Witness ==
    /\ pc[1] = "done"
    /\ call[1].caller = "main"
    /\ results[1] = <<Completed, "Canceled", Completed>>
    /\ fs[OutputFile] = Audio(1, call[1].voice, chunks[1][1])
                        \o Audio(1, call[1].voice, chunks[1][3])

\* A text holds a run of non-whitespace longer than size.
HasLongWord(text, size) ==
    \E k \in DOMAIN SplitChunks(text) :
       ~IsBlank(SplitChunks(text)[k]) /\ TLen(SplitChunks(text)[k]) > size

\* C2: every chunk split_text_into_chunks returns has at most size
\* characters.
C2_ChunksWithinSize ==
    fout.computed => \A k \in DOMAIN fout.value : TLen(fout.value[k]) <= fin.size

\* A text with a whitespace-free run longer than the size has been split.
C2_Witness ==
    /\ fout.computed
    /\ HasLongWord(fin.text, fin.size)
    /\ \E k \in DOMAIN fout.value : TLen(fout.value[k]) = fin.size

\* ' '.join(t.split()): whitespace runs become one space, none at the ends.
Collapse(t) ==
    LET first == IF t # <<>> /\ IsSpace(t[1].c) THEN 2 ELSE 1
        last == IF t # <<>> /\ IsSpace(t[Len(t)].c) THEN Len(t) - 1 ELSE Len(t)
        inner == SubSeq(t, first, last)
    IN  [k \in DOMAIN inner |->
            IF IsSpace(inner[k].c) THEN [c |-> " ", n |-> 1] ELSE inner[k]]

\* The parts joined with one space between consecutive parts.
JoinWithSpace(parts) ==
    JoinAll([k \in 1..(2 * Len(parts) - 1) |->
                IF k % 2 = 1 THEN parts[(k + 1) \div 2] ELSE <<[c |-> " ", n |-> 1]>>])

IsWord(run) == ~IsSpace(run.c)

\* The text without its whitespace.
NonSpace(t) ==
    LET kept == SelectSeq(t, IsWord)
    IN  JoinAll([k \in DOMAIN kept |-> <<kept[k]>>])

\* C3 as stated: the chunks joined with single spaces are the text up to
\* whitespace collapsing.
C3_JoinReproducesText ==
    fout.computed => Collapse(JoinWithSpace(fout.value)) = Collapse(fin.text)

\* C3 as amended: the chunks hold the non-whitespace characters of the text,
\* all of them and in order; and the chunks joined with single spaces are
\* the text up to whitespace collapsing when no whitespace-free run of the
\* text is longer than the size.
C3_ContentKept ==
    fout.computed =>
       /\ NonSpace(JoinAll(fout.value)) = NonSpace(fin.text)
       /\ ~HasLongWord(fin.text, fin.size) =>
             Collapse(JoinWithSpace(fout.value)) = Collapse(fin.text)

\* A text of several words, one of them longer than the size, split in
\* several chunks.
C3_Witness ==
    /\ fout.computed
    /\ HasLongWord(fin.text, fin.size)
    /\ \E k \in DOMAIN fin.text : IsSpace(fin.text[k].c)
    /\ Len(fout.value) >= 3

\* C4 as stated: the result is (total_characters, estimated_cost).
C4_CountThenCost ==
    fout.computed =>
       fout.value = <<TLen(fin.text),
                      TLen(fin.text) * (IF Contains(fin.voice_type, NeuralLabel)
                                        THEN 16 ELSE 4)>>

\* C4 as amended: the result is (estimated_cost, total_characters); the cost
\* is 16 millionths of a dollar per character when voice_type holds
\* "Neural" in this very case, 4 otherwise; a million characters cost 16
\* dollars as "Neural" and 4 as "Standard".
C4_CostThenCount ==
    fout.computed =>
       /\ fout.value[2] = TLen(fin.text)
       /\ fout.value[1] = TLen(fin.text)
                          * (IF fin.voice_type \in {NeuralLabel, Jenny.short_name}
                             THEN 16 ELSE 4)
       /\ (TLen(fin.text) = Million /\ fin.voice_type = NeuralLabel) =>
             fout.value = <<16 * Million, Million>>
       /\ (TLen(fin.text) = Million /\ fin.voice_type = StandardLabel) =>
             fout.value = <<4 * Million, Million>>

\* The cost of a million characters for "Neural" has been computed.
C4_Witness ==
    /\ fout.computed
    /\ fin.voice_type = NeuralLabel
    /\ TLen(fin.text) = Million
    /\ fout.value[1] = 16 * Million

\* C5: a preview never writes output.mp3, and the file it plays back is one
\* it wrote.
C5_PreviewKeepsOutputFile ==
    \A s \in Sessions :
       call[s].caller = "preview_voice" =>
          /\ OutputFile \notin io[s]
          /\ (ui[s].audio = PreviewFile /\ Succeeded(s) # {}) => PreviewFile \in io[s]

\* C6 as stated: an exception while chunk k is synthesized fails the
\* request: no later chunk is processed and no download is offered.
C6_ExceptionAbortsRequest ==
    \A s \in Sessions :
       \A k \in DOMAIN results[s] :
          results[s][k] = "Exception" =>
             /\ pc[s] = "failed"
             /\ Len(results[s]) = k
             /\ ~ui[s].offered

\* C6 as amended: an exception while a chunk is synthesized is caught in
\* synthesize_chunk and the chunk is skipped like a cancelled one: the
\* request fails only once every chunk has been processed (while combining),
\* a request that is done has processed every chunk and offers the audio of
\* the completed ones, and the chunk files of the completed chunks stay.
C6_ExceptionSkipsChunk ==
    \A s \in Sessions :
       (\E k \in DOMAIN results[s] : results[s][k] = "Exception") =>
          /\ pc[s] \in {"tts", "done", "failed"}
          /\ pc[s] \in {"done", "failed"} => Len(results[s]) = Len(chunks[s])
          /\ (pc[s] = "done" /\ Succeeded(s) # {}) =>
                (ui[s].offered /\ ui[s].download = AudioFrom(s, 1))
          /\ \A j \in Succeeded(s) :
                /\ ChunkFileName(j) \in DOMAIN fs
                /\ fs[ChunkFileName(j)] = Audio(s, call[s].voice, chunks[s][j])

\* Three chunks, an exception in the second: the third is synthesized and
\* the download offered.
C6_Witness ==
    /\ pc[1] = "done"
    /\ results[1] = <<Completed, "Exception", Completed>>
    /\ ui[1].offered

\* C7: with secrets.toml absent or lacking speech_service, api_key or
\* region, no remote call is ever attempted and no run gets past the
\* loading of the secrets.
C7_NoRemoteCallWithoutSecrets ==
    secrets \in BadSecrets =>
       /\ remote = {}
       /\ \A s \in Sessions : pc[s] \in {"boot", "stopped"}

\* The region is missing and the run has been stopped, also when run again.
C7_Witness ==
    /\ secrets = "no_region"
    /\ pc[1] = "stopped"
    /\ runs[1] = 1

\* The locales the statement allows in a group.
AllowedLocale(locale) == StartsWith(locale, <<"e", "n">>) \/ locale = esES

\* C8 as stated: a voice whose locale is outside English and es-ES is in no
\* group, whatever the groups are called.
C8_OnlyEnglishAndSpain ==
    fout.computed =>
       \A g \in DOMAIN fout.value :
          \A k \in DOMAIN fout.value[g] : AllowedLocale(fout.value[g][k].locale)

\* Where a voice stands in the catalog.
PlaceOf(voice) == CHOOSE k \in DOMAIN fin.voices : fin.voices[k] = voice

\* The voices of group g are the catalog's voices whose locale begins with
\* prefix, each once and in catalog order.
GroupIs(g, prefix) ==
    LET group == fout.value[g]
    IN  /\ \A k \in DOMAIN group :
              \E j \in DOMAIN fin.voices : fin.voices[j] = group[k]
        /\ \A k \in DOMAIN group : StartsWith(group[k].locale, prefix)
        /\ \A j \in DOMAIN fin.voices :
              StartsWith(fin.voices[j].locale, prefix) =>
                 \E k \in DOMAIN group : group[k] = fin.voices[j]
        /\ \A j, k \in DOMAIN group : j < k => PlaceOf(group[j]) < PlaceOf(group[k])

\* C8 as amended: the groups are "English" and "Spanish"; "English" holds
\* the voices whose locale begins with "en", "Spanish" those whose locale
\* begins with "es" (es-MX as well as es-ES), in catalog order; any other
\* voice is in no group.
C8_EnglishAndSpanishGroups ==
    fout.computed =>
       /\ DOMAIN fout.value = {"English", "Spanish"}
       /\ GroupIs("English", <<"e", "n">>)
       /\ GroupIs("Spanish", <<"e", "s">>)

\* A catalog with es-MX and fr-FR voices has been grouped.
C8_Witness ==
    /\ fout.computed
    /\ \E k \in DOMAIN fin.voices : fin.voices[k] = Denise
    /\ \E k \in DOMAIN fout.value.Spanish : fout.value.Spanish[k] = Dalia
    /\ \E k \in DOMAIN fout.value.English : fout.value.English[k].locale = enGB

\* C9: a request that ran while no other request did offers audio
\* synthesized for its own chunks only.  (Requests that overlap do not: the
\* witness.)
C9_AloneKeepsOwnAudio ==
    \A s \in Sessions :
       (pc[s] = "done" /\ ui[s].offered /\ ~overlapped[s]) =>
          /\ ui[s].download = AudioFrom(s, 1)
          /\ \A k \in DOMAIN ui[s].download : ui[s].download[k].by = s

\* Two overlapping requests: one ends offering audio synthesized for the
\* other, of a text that is none of its own chunks.
C9_Witness ==
    \E s \in Sessions :
       /\ pc[s] = "done"
       /\ ui[s].offered
       /\ overlapped[s]
       /\ \E k \in DOMAIN ui[s].download :
             /\ ui[s].download[k].by # s
             /\ \A j \in DOMAIN chunks[s] : ui[s].download[k].text # chunks[s][j]

\* C10: the output file is written and the download offered only when a
\* chunk of the request completed.
C10_OutputOnlyAfterSuccess ==
    \A s \in Sessions :
       (InRequest(s) /\ Succeeded(s) = {}) =>
          /\ call[s].output_filename \notin io[s]
          /\ ~ui[s].offered

\* A second run in which no chunk completed ends with the output file of
\* the first run on disk, not written by the second.
C10_Witness ==
    /\ runs[1] = 1
    /\ pc[1] = "done"
    /\ results[1] # <<>>
    /\ Succeeded(1) = {}
    /\ OutputFile \in DOMAIN fs
    /\ fs[OutputFile] # <<>>
    /\ OutputFile \notin io[1]

====
